---- MODULE Spec2Model ----
(***************************************************************************)
(* A model of src/src/sql/lib.rs: the generator of the SQL migration       *)
(* script.  generate_sql creates migrate.sql, writes the preamble and then *)
(* write_tables runs dump::<T> for the five entity types in a fixed order. *)
(* Each dump loads the type's csv into an insertion-ordered map keyed by   *)
(* the hash of the row's source ids, renders the tables (resolving uid and *)
(* mid through the shared id maps), writes them and finally inserts the    *)
(* type's id map into the shared id maps.                                  *)
(*                                                                         *)
(* Abstractions.  A csv file is a sequence of lines, each a sequence of    *)
(* fields, plus the flag "the last line ends with a line terminator".      *)
(* Rows keep the source-id columns, the user column and one payload column;*)
(* the other columns are copied to the output untouched and are left out,  *)
(* as are Uuid::new_v4() and now().  Sha256 is kept as an injective tag on *)
(* the serialized string.                                                  *)
(***************************************************************************)
EXTENDS Integers, Sequences, FiniteSets, TLC

VARIABLES
    fs,        \* the input directory: file name -> content
    file,      \* migrate.sql: the chunks written so far
    ids,       \* SharedTableIdMaps: IdMaps tag -> TableIdMap
    pc,        \* position of the run
    cur,       \* index in Order of the dump::<T> being executed
    map,       \* MigrateMap::map of the current dump
    tables,    \* the Vec<Table> returned by tables() in the current dump
    written,   \* how many of `tables` have been written
    error,     \* the error that ended the run, "none" if none
    started,   \* history: the types whose dump was entered, in order
    finished,  \* history: the types whose dump returned Ok, in order
    args,      \* the argument of a call of serialize on its own
    encoded    \* the string that call returned, "" before the call

vars == <<fs, file, ids, pc, cur, map, tables, written, error, started, finished,
          args, encoded>>

(***************************************************************************)
(* Bounds                                                                  *)
(***************************************************************************)
\* size of the input directory: one per data row and one per missing file,
\* over the five input files together
MaxInput == 3

\* components of a list given to serialize on its own
MaxComponents == 2

\* characters of such a component (the listed longer components apart)
MaxStrLen == 1

(***************************************************************************)
(* Generic helpers                                                         *)
(***************************************************************************)
Range(s) == {s[i] : i \in DOMAIN s}

Front(s) == SubSeq(s, 1, Len(s) - 1)

Last(s) == s[Len(s)]

Ok(v) == [ok |-> TRUE, val |-> v, err |-> "none"]

Err(e) == [ok |-> FALSE, val |-> <<>>, err |-> e]

\* the value an indexing panic is represented by
Panic == -1

(***************************************************************************)
(* serialize, hash, source_ids_hash                                        *)
(***************************************************************************)
\* the items written without the length of the value
RECURSIVE SerializeItemsNoLength(_, _)
SerializeItemsNoLength(vs, i) ==
    IF i > Len(vs) THEN ""
    ELSE "i:" \o ToString(i - 1) \o ";" \o "s:"
         \o "\"" \o vs[i] \o "\";" \o SerializeItemsNoLength(vs, i + 1)

\* the items numbered from 1
RECURSIVE SerializeItemsFromOne(_, _)
SerializeItemsFromOne(vs, i) ==
    IF i > Len(vs) THEN ""
    ELSE "i:" \o ToString(i) \o ";" \o "s:" \o ToString(Len(vs[i]))
         \o ":\"" \o vs[i] \o "\";" \o SerializeItemsFromOne(vs, i + 1)

\* the for_each of serialize, from the i-th value on (i counted from 1)
RECURSIVE SerializeItems(_, _)
SerializeItems(vs, i) ==
    IF i > Len(vs) THEN ""
    ELSE "i:" \o ToString(i - 1) \o ";" \o "s:" \o ToString(Len(vs[i]))
         \o ":\"" \o vs[i] \o "\";" \o SerializeItems(vs, i + 1)

serialize(vs) ==
    "a:" \o ToString(Len(vs)) \o ":{" \o SerializeItems(vs, 1) \o "}"

hash(value) == "sha256(" \o value \o ")"

source_ids_hash(vs) == hash(serialize(vs))

(***************************************************************************)
(* IndexMap: a sequence of <<key, value>> in insertion order               *)
(***************************************************************************)
IndexMapKeys(m) == {m[i][1] : i \in DOMAIN m}

\* an insert that leaves the value of a key that is already present
IndexMapInsertKeepFirst(m, k, v) ==
    IF \E i \in DOMAIN m : m[i][1] = k THEN m ELSE Append(m, <<k, v>>)

IndexMapInsert(m, k, v) ==
    IF \E i \in DOMAIN m : m[i][1] = k
    THEN [i \in DOMAIN m |-> IF m[i][1] = k THEN <<k, v>> ELSE m[i]]
    ELSE Append(m, <<k, v>>)

RECURSIVE IndexMapCollect(_)
IndexMapCollect(pairs) ==
    IF pairs = <<>> THEN <<>>
    ELSE IndexMapInsert(IndexMapCollect(Front(pairs)), Last(pairs)[1], Last(pairs)[2])

\* m[k]: panics when the key is absent
IndexMapIndex(m, k) ==
    IF k \in IndexMapKeys(m)
    THEN (CHOOSE p \in Range(m) : p[1] = k)[2]
    ELSE Panic

(***************************************************************************)
(* Entity types                                                            *)
(***************************************************************************)
IdMaps == {"FID", "MID", "NID", "UID", "VID"}

\* write_tables with the Media Revision dump ahead of the Media dump
OrderRevisionsFirst == <<"UID", "FID", "VID", "MID", "NID">>

\* the order of the dump calls in write_tables
Order == <<"UID", "FID", "MID", "VID", "NID">>

UserOffset == 2

DefaultOffset == 0

Offset(t) == IF t = "UID" THEN UserOffset ELSE DefaultOffset

CsvName(t) ==
    CASE t = "UID" -> "users.csv"
      [] t = "FID" -> "files.csv"
      [] t = "MID" -> "media.csv"
      [] t = "VID" -> "media_revisions.csv"
      [] t = "NID" -> "nodes.csv"

\* the columns of each row struct that the model keeps, in file order
Header(t) ==
    CASE t = "UID" -> <<"name", "mail">>
      [] t = "FID" -> <<"pid", "dsid", "version", "name", "user">>
      [] t = "MID" -> <<"pid", "dsid", "version", "name", "user">>
      [] t = "VID" -> <<"pid", "dsid", "version", "name", "user">>
      [] t = "NID" -> <<"pid", "label", "user">>

source_ids(t, row) ==
    CASE t = "UID" -> <<row.name>>
      [] t = "FID" -> <<row.pid, row.dsid, row.version>>
      [] t = "MID" -> <<row.pid, row.dsid>>
      [] t = "VID" -> <<row.pid, row.dsid, row.version>>
      [] t = "NID" -> <<row.pid>>

RowHash(t, row) == source_ids_hash(source_ids(t, row))

(***************************************************************************)
(* The input directory                                                     *)
(***************************************************************************)
Content(lines, nl) == [exists |-> TRUE, lines |-> lines, nl |-> nl]

Absent == [exists |-> FALSE, lines |-> <<>>, nl |-> FALSE]

UserNames == {"admin", "bob", "eve"}

Owners == {"admin", "bob"}

Versions == {"v0", "v1"}

Dsids == {"d1", "d2"}

Pids == {"n1", "n2"}

\* a line that does not have the number of fields of its header
BadLine == <<"bad">>

\* the media item d1 belongs to admin, d2 to bob
MediaOwner(d) == IF d = "d1" THEN "admin" ELSE "bob"

\* the node n1 belongs to admin, n2 to bob
NodeOwner(p) == IF p = "n1" THEN "admin" ELSE "bob"

Lines(t) ==
    CASE t = "UID" -> {<<n, "m">> : n \in UserNames} \cup {BadLine}
      [] t = "FID" -> {<<"p1", "d1", v, "f", u>> : v \in Versions, u \in Owners}
                      \cup {BadLine}
      [] t = "MID" -> {<<"p1", d, v, "x", MediaOwner(d)>> : d \in Dsids, v \in Versions}
                      \cup {BadLine}
      [] t = "VID" -> {<<"p1", d, v, "x", MediaOwner(d)>> : d \in Dsids, v \in Versions}
                      \cup {BadLine}
      [] t = "NID" -> {<<p, "t", NodeOwner(p)>> : p \in Pids} \cup {BadLine}

\* only media.csv is copied byte for byte, so only its final line terminator is modelled
Terminators(t) == IF t = "MID" THEN BOOLEAN ELSE {TRUE}

\* the contents of the csv of type t of size n: a header and n data rows, or,
\* of size 1, no file
Inputs(t, n) ==
    {Content(<<Header(t)>> \o rows, nl) : rows \in [1..n -> Lines(t)], nl \in Terminators(t)}
    \cup (IF n = 1 THEN {Absent} ELSE {})

(***************************************************************************)
(* SourceRow::csv                                                          *)
(***************************************************************************)
Open(dir, name) == IF dir[name].exists THEN Ok(dir[name]) ELSE Err("IOError")

\* str::lines().skip(1)
SkipHeader(lines) == IF lines = <<>> THEN <<>> ELSE Tail(lines)

\* the line that results when y is written right after an unterminated x
FuseLine(x, y) == Front(x) \o <<Last(x) \o Head(y)>> \o Tail(y)

\* write_all(media.csv bytes) followed by write_all(the joined revision lines)
MergeCsv(media, revisions) ==
    LET body == SkipHeader(revisions.lines)
    IN  IF body = <<>> THEN media.lines
        ELSE IF media.nl \/ media.lines = <<>> THEN media.lines \o body
        ELSE Front(media.lines) \o <<FuseLine(Last(media.lines), Head(body))>> \o Tail(body)

MediaRevisionCsv(dir) ==
    LET media == Open(dir, "media.csv")
        revisions == Open(dir, "media_revisions.csv")
    IN  IF ~media.ok THEN media
        ELSE IF ~revisions.ok THEN revisions
        ELSE Ok(MergeCsv(media.val, revisions.val))

Csv(t, dir) ==
    IF t = "VID" THEN MediaRevisionCsv(dir)
    ELSE LET f == Open(dir, CsvName(t))
         IN  IF f.ok THEN Ok(f.val.lines) ELSE f

(***************************************************************************)
(* MigrateMap::new, map, rows, ids, uid, mid                               *)
(***************************************************************************)
Deserialize(t, header, line) ==
    [f \in Range(Header(t)) |-> line[CHOOSE i \in DOMAIN header : header[i] = f]]

\* ReaderBuilder ... into_deserialize().collect::<Result<Vec<T>, csv::Error>>()
Records(t, lines) ==
    IF lines = <<>> THEN Ok(<<>>)
    ELSE LET header == Head(lines)
             recs == Tail(lines)
         IN  IF \E i \in DOMAIN recs : Len(recs[i]) # Len(header) THEN Err("CSVError")
             ELSE IF recs # <<>> /\ ~(Range(Header(t)) \subseteq Range(header))
             THEN Err("CSVError")
             ELSE Ok([i \in DOMAIN recs |-> Deserialize(t, header, recs[i])])

MapCollect(t, rows) ==
    IndexMapCollect([i \in DOMAIN rows |-> <<RowHash(t, rows[i]), rows[i]>>])

MigrateMapMap(t, lines) ==
    LET rows == Records(t, lines)
    IN  IF rows.ok THEN Ok(MapCollect(t, rows.val)) ELSE rows

MigrateMapNew(t, dir) ==
    LET csv == Csv(t, dir)
    IN  IF csv.ok THEN MigrateMapMap(t, csv.val) ELSE csv

\* rows() without T::offset()
RowIndexNoOffset(t, i) == i - 1

\* rows(): the index of the i-th entry of the map (i counted from 1)
RowIndex(t, i) == Offset(t) + (i - 1)

\* ids() without T::offset()
MigrateMapIdsNoOffset(t, m) ==
    IndexMapCollect([i \in DOMAIN m |-> <<m[i][1], i - 1>>])

MigrateMapIds(t, m) ==
    IndexMapCollect([i \in DOMAIN m |-> <<m[i][1], RowIndex(t, i)>>])

Lookup(registry, tag, key) ==
    IF tag \in IndexMapKeys(registry)
    THEN IndexMapIndex(IndexMapIndex(registry, tag), key)
    ELSE Panic

\* uid() answering a default id instead of indexing an absent key
UidOrDefault(registry, user) ==
    IF user = "admin" THEN 1
    ELSE IF Lookup(registry, "UID", source_ids_hash(<<user>>)) = Panic THEN 0
    ELSE Lookup(registry, "UID", source_ids_hash(<<user>>))

Uid(registry, user) ==
    IF user = "admin" THEN 1
    ELSE Lookup(registry, "UID", source_ids_hash(<<user>>))

Mid(registry, pid, dsid) == Lookup(registry, "MID", source_ids_hash(<<pid, dsid>>))

(***************************************************************************)
(* TableSerializer::tables for the five maps.  A table is its name and its *)
(* values, one per entry of the map, in map order.  A value keeps the id   *)
(* columns, the resolved uid and the payload column.                       *)
(***************************************************************************)
Table(name, vals) == [name |-> name, values |-> vals]

\* MigrateMap::rows: the entries of the map with their row index
Rows(t, m) == [i \in DOMAIN m |-> [index |-> RowIndex(t, i), hash |-> m[i][1], row |-> m[i][2]]]

\* MigrateMap::migrate_map_values, for one entry of rows()
MigrateMapValue(t, e) ==
    [hash |-> e.hash, source_ids |-> source_ids(t, e.row), destid1 |-> e.index]

UserTables(m, registry) ==
    LET rows == Rows("UID", m)
        users(e) == [uid |-> e.index]
        users_field_data(e) == [uid |-> e.index, name |-> e.row.name]
    IN  << Table("users", [i \in DOMAIN rows |-> users(rows[i])]),
           Table("users_field_data", [i \in DOMAIN rows |-> users_field_data(rows[i])]),
           Table("migrate_map_fedora_users",
                 [i \in DOMAIN rows |-> MigrateMapValue("UID", rows[i])]) >>

FileTables(m, registry) ==
    LET rows == Rows("FID", m)
        file_managed(e) ==
            [fid |-> e.index, uid |-> Uid(registry, e.row.user), filename |-> e.row.name]
        filehash(e) == [fid |-> e.index]
    IN  << Table("file_managed", [i \in DOMAIN rows |-> file_managed(rows[i])]),
           Table("filehash", [i \in DOMAIN rows |-> filehash(rows[i])]),
           Table("migrate_map_fedora_files",
                 [i \in DOMAIN rows |-> MigrateMapValue("FID", rows[i])]) >>

MediaTables(m, registry) ==
    LET rows == Rows("MID", m)
        media(e) == [mid |-> e.index, vid |-> e.index]
        media_field_data(e) ==
            [mid |-> e.index, vid |-> e.index, uid |-> Uid(registry, e.row.user),
             name |-> e.row.name]
    IN  << Table("media", [i \in DOMAIN rows |-> media(rows[i])]),
           Table("media_field_data", [i \in DOMAIN rows |-> media_field_data(rows[i])]),
           Table("migrate_map_fedora_media",
                 [i \in DOMAIN rows |-> MigrateMapValue("MID", rows[i])]) >>

MediaRevisionTables(m, registry) ==
    LET rows == Rows("VID", m)
        media_revision(e) ==
            [mid |-> e.index, vid |-> e.index, uid |-> Uid(registry, e.row.user)]
        media_field_revision(e) ==
            [mid |-> Mid(registry, e.row.pid, e.row.dsid), vid |-> e.index,
             uid |-> Uid(registry, e.row.user), name |-> e.row.name]
    IN  << Table("media_revision", [i \in DOMAIN rows |-> media_revision(rows[i])]),
           Table("media_field_revision",
                 [i \in DOMAIN rows |-> media_field_revision(rows[i])]),
           Table("migrate_map_fedora_media_revisions",
                 [i \in DOMAIN rows |-> MigrateMapValue("VID", rows[i])]) >>

NodeTables(m, registry) ==
    LET rows == Rows("NID", m)
        node(e) == [nid |-> e.index, vid |-> e.index]
        node_field(e) ==
            [nid |-> e.index, vid |-> e.index, uid |-> Uid(registry, e.row.user),
             title |-> e.row.label]
    IN  << Table("node", [i \in DOMAIN rows |-> node(rows[i])]),
           Table("node_field_data", [i \in DOMAIN rows |-> node_field(rows[i])]),
           Table("node_field_revision", [i \in DOMAIN rows |-> node_field(rows[i])]),
           Table("migrate_map_fedora_nodes",
                 [i \in DOMAIN rows |-> MigrateMapValue("NID", rows[i])]) >>

Tables(t, m, registry) ==
    CASE t = "UID" -> UserTables(m, registry)
      [] t = "FID" -> FileTables(m, registry)
      [] t = "MID" -> MediaTables(m, registry)
      [] t = "VID" -> MediaRevisionTables(m, registry)
      [] t = "NID" -> NodeTables(m, registry)

\* tables() panics when one of the uid or mid it evaluates indexes an absent key
TablesPanic(t, m, registry) ==
    \E i \in DOMAIN m :
        \/ t # "UID" /\ Uid(registry, m[i][2].user) = Panic
        \/ t = "VID" /\ Mid(registry, m[i][2].pid, m[i][2].dsid) = Panic

(***************************************************************************)
(* The run: generate_sql, write_tables, dump                               *)
(***************************************************************************)
Preamble == Table("CREATE_TABLES_PREAMBLE", <<>>)

CsvNames == {CsvName(t) : t \in IdMaps}

Init ==
    /\ \E nU \in 0..MaxInput :
       \E nF \in 0..(MaxInput - nU) :
       \E nM \in 0..(MaxInput - nU - nF) :
       \E nV \in 0..(MaxInput - nU - nF - nM) :
       \E nN \in 0..(MaxInput - nU - nF - nM - nV) :
       \E u \in Inputs("UID", nU), f \in Inputs("FID", nF), m \in Inputs("MID", nM),
          v \in Inputs("VID", nV), n \in Inputs("NID", nN) :
           fs = [name \in CsvNames |->
                    CASE name = "users.csv" -> u
                      [] name = "files.csv" -> f
                      [] name = "media.csv" -> m
                      [] name = "media_revisions.csv" -> v
                      [] name = "nodes.csv" -> n]
    /\ file = <<>>
    /\ ids = <<>>
    /\ pc = "create"
    /\ cur = 1
    /\ map = <<>>
    /\ tables = <<>>
    /\ written = 0
    /\ error = "none"
    /\ started = <<>>
    /\ finished = <<>>
    /\ args = <<>>
    /\ encoded = ""

\* an error that is recorded and dropped: write_tables goes on with the next dump
AbortSwallowed(e) ==
    /\ error' = e
    /\ pc' = IF cur < Len(Order) THEN "new" ELSE "done"
    /\ cur' = IF cur < Len(Order) THEN cur + 1 ELSE cur

\* an Err reaches the unwrap of generate_sql, a panic unwinds: the run is over
Abort(e) ==
    /\ pc' = "failed"
    /\ error' = e
    /\ cur' = cur

\* a dump that starts from fresh id maps
RegistryReplace(registry, t, slice) == <<<<t, slice>>>>

\* ids.borrow_mut().insert(T::Row::id(), table_id_map)
RegistryInsert(registry, t, slice) == IndexMapInsert(registry, t, slice)

\* generate_sql: File::create and the write of the preamble
Create ==
    /\ pc = "create"
    /\ \E ok \in BOOLEAN :
        IF ok
        THEN /\ file' = Append(file, Preamble)
             /\ pc' = "new"
             /\ UNCHANGED <<cur, error>>
        ELSE /\ Abort("IOError")
             /\ UNCHANGED file
    /\ UNCHANGED <<fs, ids, map, tables, written, started, finished, args, encoded>>

\* a dump that writes the slice into the id maps as soon as the map is loaded
NewInsertsSlice ==
    /\ pc = "new"
    /\ LET t == Order[cur]
           m == MigrateMapNew(t, fs)
       IN  /\ started' = Append(started, t)
           /\ IF m.ok
              THEN /\ map' = m.val
                   /\ ids' = RegistryInsert(ids, t, MigrateMapIds(t, m.val))
                   /\ pc' = "tables"
                   /\ UNCHANGED <<cur, error>>
              ELSE /\ Abort(m.err)
                   /\ UNCHANGED <<map, ids>>
    /\ UNCHANGED <<fs, file, tables, written, finished, args, encoded>>

\* dump: T::new(&path, ids.clone())?
New ==
    /\ pc = "new"
    /\ LET t == Order[cur]
           m == MigrateMapNew(t, fs)
       IN  /\ started' = Append(started, t)
           /\ IF m.ok
              THEN /\ map' = m.val
                   /\ pc' = "tables"
                   /\ UNCHANGED <<cur, error>>
              ELSE /\ Abort(m.err)
                   /\ UNCHANGED map
    /\ UNCHANGED <<fs, file, ids, tables, written, finished, args, encoded>>

\* tables rendered one at a time, each written before the next is rendered: the
\* first table is in the file when a later one panics
RenderLazy ==
    /\ pc = "tables"
    /\ LET t == Order[cur]
       IN  IF TablesPanic(t, map, ids)
           THEN /\ Abort("Panic")
                /\ file' = Append(file, Tables(t, map, ids)[1])
                /\ UNCHANGED <<tables, written>>
           ELSE /\ tables' = Tables(t, map, ids)
                /\ written' = 0
                /\ pc' = "dump"
                /\ UNCHANGED <<cur, error, file>>
    /\ UNCHANGED <<fs, ids, map, started, finished, args, encoded>>

\* TableSerializer::dump: self.tables()
Render ==
    /\ pc = "tables"
    /\ LET t == Order[cur]
       IN  IF TablesPanic(t, map, ids)
           THEN /\ Abort("Panic")
                /\ UNCHANGED <<tables, written>>
           ELSE /\ tables' = Tables(t, map, ids)
                /\ written' = 0
                /\ pc' = "dump"
                /\ UNCHANGED <<cur, error>>
    /\ UNCHANGED <<fs, file, ids, map, started, finished, args, encoded>>

\* TableSerializer::dump: table.dump(&mut file) for the next table
WriteTable ==
    /\ pc = "dump"
    /\ written < Len(tables)
    /\ \E ok \in BOOLEAN :
        IF ok
        THEN /\ file' = Append(file, tables[written + 1])
             /\ written' = written + 1
             /\ UNCHANGED <<pc, cur, error>>
        ELSE /\ Abort("IOError")
             /\ UNCHANGED <<file, written>>
    /\ UNCHANGED <<fs, ids, map, tables, started, finished, args, encoded>>

\* dump: map.ids(), the insert into the shared id maps, and the return to write_tables
Insert ==
    /\ pc = "dump"
    /\ written = Len(tables)
    /\ LET t == Order[cur]
       IN  /\ ids' = RegistryInsert(ids, t, MigrateMapIds(t, map))
           /\ finished' = Append(finished, t)
    /\ UNCHANGED started
    /\ map' = <<>>
    /\ tables' = <<>>
    /\ written' = 0
    /\ IF cur < Len(Order)
       THEN pc' = "new" /\ cur' = cur + 1
       ELSE pc' = "done" /\ cur' = cur
    /\ UNCHANGED <<fs, file, error, args, encoded>>

Next == Create \/ New \/ Render \/ WriteTable \/ Insert

Spec == Init /\ [][Next]_vars

TypeOK ==
    /\ pc \in {"create", "new", "tables", "dump", "done", "failed"}
    /\ cur \in 1..Len(Order)
    /\ error \in {"none", "IOError", "CSVError", "Panic"}
    /\ written \in 0..Len(tables)
    /\ IndexMapKeys(ids) \subseteq IdMaps

(***************************************************************************)
(* Vocabulary of the properties                                            *)
(***************************************************************************)
CurType == Order[cur]

HasSlice(t) == t \in IndexMapKeys(ids)

Slice(t) == IndexMapIndex(ids, t)

\* the rows that MigrateMap::map decoded for type t (when it returned Ok)
Decoded(t) == Records(t, Csv(t, fs).val).val

KeySeq(t, rows) == [i \in DOMAIN rows |-> RowHash(t, rows[i])]

FirstAt(ks, k) == CHOOSE i \in DOMAIN ks : ks[i] = k /\ \A j \in 1..(i - 1) : ks[j] # k

LastAt(ks, k) == CHOOSE i \in DOMAIN ks : ks[i] = k /\ \A j \in (i + 1)..Len(ks) : ks[j] # k

\* how many distinct keys occur before the first occurrence of k
Rank(ks, k) == Cardinality({ks[j] : j \in 1..(FirstAt(ks, k) - 1)})

SpecOffset(t) == IF t = "UID" THEN 2 ELSE 0

(***************************************************************************)
(* C1: for every entity type with offset o (2 for Users, 0 for the others) *)
(* whose slice is in the registry, with N distinct source keys among the   *)
(* decoded rows, the ids of the slice are exactly o..o+N-1, one per key,   *)
(* and the key whose first occurrence is the k-th distinct key has o+k.    *)
(***************************************************************************)
C1_FirstSeenIds ==
    \A t \in IdMaps :
        HasSlice(t) =>
            LET ks == KeySeq(t, Decoded(t))
                D == Range(ks)
                o == SpecOffset(t)
            IN  /\ Len(Slice(t)) = Cardinality(D)
                /\ IndexMapKeys(Slice(t)) = D
                /\ {p[2] : p \in Range(Slice(t))} = o..(o + Cardinality(D) - 1)
                /\ \A k \in D : IndexMapIndex(Slice(t), k) = o + Rank(ks, k)

\* a Users slice of two keys built from three rows, the first key repeated last
C1_Witness ==
    /\ HasSlice("UID")
    /\ Len(Decoded("UID")) = 3
    /\ Len(Slice("UID")) = 2
    /\ Decoded("UID")[1] = Decoded("UID")[3]
    /\ Slice("UID")[2][2] = 3

\* the names of the rows of the Users input
UsersInput == {r.name : r \in Range(Decoded("UID"))}

UserKey(name) == source_ids_hash(<<name>>)

\* the uid that the tables of the current dump carry for the i-th entry of the map
UidColumn(tbls, i) ==
    {tbls[j].values[i].uid : j \in {n \in DOMAIN tbls : "uid" \in DOMAIN tbls[n].values[i]}}

(***************************************************************************)
(* C2 as claimed: whenever the tables of a File, Media, Media Revision or  *)
(* Node dump have been rendered, every row's user name occurs in the Users *)
(* input (otherwise the lookup would have raised) and the uid emitted for  *)
(* the row is the id that the User slice records for that name.            *)
(***************************************************************************)
C2_AsClaimed ==
    (pc = "dump" /\ CurType # "UID") =>
        \A i \in DOMAIN map :
            LET u == map[i][2].user
            IN  /\ u \in UsersInput
                /\ UidColumn(tables, i) \subseteq {IndexMapIndex(Slice("UID"), UserKey(u))}

(***************************************************************************)
(* C2 amended: when the tables of a File, Media, Media Revision or Node    *)
(* dump are rendered, then if some row's user name is not "admin" and      *)
(* does not occur in the Users input the run aborts with a panic, with     *)
(* nothing written and no slice added; otherwise every emitted uid is 1    *)
(* for the name "admin" and for any other name the id that the User slice  *)
(* records for it.                                                         *)
(***************************************************************************)
C2_Resolve ==
    [][ (pc = "tables" /\ CurType # "UID") =>
          IF \E i \in DOMAIN map :
                 map[i][2].user # "admin" /\ map[i][2].user \notin UsersInput
          THEN /\ pc' = "failed"
               /\ error' = "Panic"
               /\ file' = file
               /\ ids' = ids
               /\ tables' = <<>>
          ELSE /\ pc' = "dump" \/ CurType = "VID"
               /\ pc' = "dump" =>
                     \A i \in DOMAIN map :
                         LET u == map[i][2].user
                         IN  /\ UidColumn(tables', i) # {}
                             /\ UidColumn(tables', i) =
                                   {IF u = "admin" THEN 1
                                    ELSE IndexMapIndex(Slice("UID"), UserKey(u))}
                             /\ UidColumn(tables', i) \subseteq Nat
      ]_vars

\* a File row of bob rendered with the id that the User slice has for bob
C2_Witness ==
    /\ pc = "dump"
    /\ CurType = "FID"
    /\ \E i \in DOMAIN map :
          /\ map[i][2].user = "bob"
          /\ tables[1].values[i].uid = IndexMapIndex(Slice("UID"), UserKey("bob"))
          /\ tables[1].values[i].uid >= 2

(***************************************************************************)
(* C3 as claimed: a User row named "admin" has id 1 in the rows emitted    *)
(* for it, in its migrate map entry and in the User slice, and a uid       *)
(* lookup of "admin" answers 1.                                            *)
(***************************************************************************)
C3_AdminIsOne ==
    /\ Uid(ids, "admin") = 1
    /\ (pc = "dump" /\ CurType = "UID") =>
          \A i \in DOMAIN map :
              map[i][2].name = "admin" =>
                  /\ tables[1].values[i].uid = 1
                  /\ tables[2].values[i].uid = 1
                  /\ tables[3].values[i].destid1 = 1
    /\ (HasSlice("UID") /\ UserKey("admin") \in IndexMapKeys(Slice("UID"))) =>
          IndexMapIndex(Slice("UID"), UserKey("admin")) = 1

(***************************************************************************)
(* C4 as claimed: a user whose name is not "admin" and whose first         *)
(* occurrence is at position k among the rows not named "admin" has id     *)
(* 2 + k in the User slice and in the emitted rows, also when an "admin"   *)
(* row precedes it.                                                        *)
(***************************************************************************)
C4_NonAdminOffset ==
    LET names == [i \in DOMAIN Decoded("UID") |-> Decoded("UID")[i].name]
        NotAdmin(n) == n # "admin"
        others == SelectSeq(names, NotAdmin)
    IN  /\ HasSlice("UID") =>
              \A n \in Range(others) :
                  IndexMapIndex(Slice("UID"), UserKey(n)) = 2 + Rank(others, n)
        /\ (pc = "dump" /\ CurType = "UID") =>
              \A i \in DOMAIN map :
                  map[i][2].name # "admin" =>
                      tables[1].values[i].uid = 2 + Rank(others, map[i][2].name)

\* media.csv and media_revisions.csv, each decoded on its own
MediaInput == Records("MID", fs["media.csv"].lines)

RevisionsInput == Records("VID", fs["media_revisions.csv"].lines)

(***************************************************************************)
(* C5 as claimed: whatever the Media input M and the Media Revisions input *)
(* R (both present and well formed, media.csv with or without a final line *)
(* terminator), loading Media Revisions does not fail, the rows processed  *)
(* are the rows of M followed by the rows of R, and the id of each is its  *)
(* first-seen position over this sequence.                                 *)
(***************************************************************************)
C5_MergedSequence ==
    ( /\ CurType = "VID"
      /\ "VID" \in Range(started)
      /\ fs["media.csv"].exists /\ fs["media_revisions.csv"].exists
      /\ MediaInput.ok /\ RevisionsInput.ok ) =>
        /\ ~(pc = "failed" /\ error = "CSVError")
        /\ pc \in {"tables", "dump"} =>
              LET rows == MediaInput.val \o RevisionsInput.val
                  ks == KeySeq("VID", rows)
              IN  /\ Decoded("VID") = rows
                  /\ IndexMapKeys(map) = Range(ks)
                  /\ \A i \in DOMAIN map :
                        map[i][1] \in Range(ks) /\ i - 1 = Rank(ks, map[i][1])

(***************************************************************************)
(* C6 as claimed: in every table emitted for Media Revisions the mid of a  *)
(* revision is the id that the Media slice holds for the key of            *)
(* (pid, dsid), so media_revision and media_field_revision agree on it.    *)
(***************************************************************************)
C6_RevisionMediaId ==
    (pc = "dump" /\ CurType = "VID") =>
        \A i \in DOMAIN map :
            LET r == map[i][2]
                m == IndexMapIndex(Slice("MID"), source_ids_hash(<<r.pid, r.dsid>>))
            IN  /\ tables[1].values[i].mid = m
                /\ tables[2].values[i].mid = m

(***************************************************************************)
(* C7: rows of one entity type that share a source key collapse: the map   *)
(* has one entry per distinct key, at the rank of the key's first          *)
(* occurrence among the distinct keys, holding the row of the key's last   *)
(* occurrence; every table has one value per distinct key, the migrate map *)
(* entry and the uid of that value come from the last occurrence and its   *)
(* id from the first; and the slice has one entry per distinct key.        *)
(***************************************************************************)
C7_DuplicatesCollapse ==
    /\ pc \in {"tables", "dump"} =>
          LET t == CurType
              rows == Decoded(t)
              ks == KeySeq(t, rows)
              D == Range(ks)
          IN  /\ Len(map) = Cardinality(D)
              /\ \A k \in D :
                    LET i == Rank(ks, k) + 1
                        last == rows[LastAt(ks, k)]
                    IN  /\ map[i][1] = k
                        /\ map[i][2] = last
                        /\ pc = "dump" =>
                              /\ \A j \in DOMAIN tables : Len(tables[j].values) = Cardinality(D)
                              /\ tables[Len(tables)].values[i] =
                                    [hash |-> k, source_ids |-> source_ids(t, last),
                                     destid1 |-> SpecOffset(t) + Rank(ks, k)]
                              /\ t # "UID" => UidColumn(tables, i) = {Uid(ids, last.user)}
    /\ \A t \in IdMaps :
          HasSlice(t) => Len(Slice(t)) = Cardinality(Range(KeySeq(t, Decoded(t))))

\* two File rows with one key and different owners, rendered as one row
C7_Witness ==
    /\ pc = "dump"
    /\ CurType = "FID"
    /\ Len(Decoded("FID")) = 2
    /\ Len(map) = 1
    /\ Decoded("FID")[1].user = "admin"
    /\ Decoded("FID")[2].user = "bob"
    /\ tables[1].values[1].uid >= 2

(***************************************************************************)
(* C8: dump is entered at most once per entity type and in the order       *)
(* Users, Files, Media, Media Revisions, Nodes; a dump is entered only     *)
(* when the one before it has returned; a run that completes has entered   *)
(* and completed each of the five exactly once.                            *)
(***************************************************************************)
C8_ProcessingOrder ==
    LET order == <<"UID", "FID", "MID", "VID", "NID">>
    IN  /\ Len(started) <= 5
        /\ started = SubSeq(order, 1, Len(started))
        /\ finished = SubSeq(order, 1, Len(finished))
        /\ Len(finished) <= Len(started)
        /\ Len(started) <= Len(finished) + 1
        /\ pc = "new" => Len(started) = Len(finished)
        /\ pc = "done" => started = order /\ finished = order

\* a completed run that processed rows of Media and of Media Revisions
C8_Witness ==
    /\ pc = "done"
    /\ Len(started) = 5
    /\ Len(finished) = 5
    /\ Len(Slice("MID")) >= 1
    /\ Len(Slice("VID")) >= 2

(***************************************************************************)
(* C9: the registry starts empty and only grows: a step never removes a    *)
(* slice nor changes the mapping of one; a slice that appears is the slice *)
(* of the type whose dump is running, added once at the end of its dump;   *)
(* no tag has two slices.                                                  *)
(***************************************************************************)
C9_RegistryGrows ==
    /\ ids = <<>>
    /\ [][ /\ \A t \in IndexMapKeys(ids) :
                 /\ t \in IndexMapKeys(ids')
                 /\ IndexMapIndex(ids', t) = IndexMapIndex(ids, t)
           /\ \A t \in IndexMapKeys(ids') \ IndexMapKeys(ids) :
                 /\ t = CurType
                 /\ pc = "dump"
                 /\ t \notin Range(finished)
                 /\ finished' = Append(finished, t)
           /\ Len(ids') = Cardinality(IndexMapKeys(ids'))
           /\ Len(ids') <= Len(ids) + 1
         ]_vars

\* the Files dump has added its slice next to a Users slice that is not empty
C9_Witness ==
    /\ HasSlice("UID")
    /\ HasSlice("FID")
    /\ Len(Slice("UID")) >= 1
    /\ Len(Slice("FID")) >= 1
    /\ pc = "new"
    /\ CurType = "MID"

(***************************************************************************)
(* C10: every error is fatal: from a state in which an error has been      *)
(* raised no step is taken, so no later type is loaded or processed, no    *)
(* slice is added and nothing more is written; a failed run is in no       *)
(* other state than the failed one and a completed run has had no error.   *)
(***************************************************************************)
C10_ErrorsAreFatal ==
    /\ [](error # "none" <=> pc = "failed")
    /\ [](pc = "done" => error = "none")
    /\ [][ /\ error = "none"
           /\ error' # "none" =>
                 /\ started' \in {started, Append(started, CurType)}
                 /\ finished' = finished
                 /\ ids' = ids
                 /\ file' = file
         ]_vars

\* the Files input has a malformed row: the run has stopped after the Users dump
C10_Witness ==
    /\ pc = "failed"
    /\ error = "CSVError"
    /\ CurType = "FID"
    /\ finished = <<"UID">>
    /\ Len(Slice("UID")) >= 1

(***************************************************************************)
(* serialize on its own: a call with a list drawn from a bounded set       *)
(***************************************************************************)
\* the characters of the short components: two letters and the delimiters
Alphabet == {"a", "b", "\"", ";", ":"}

RECURSIVE StringsUpTo(_)
StringsUpTo(n) ==
    IF n = 0 THEN {""}
    ELSE StringsUpTo(n - 1) \cup {s \o c : s \in StringsUpTo(n - 1), c \in Alphabet}

\* components that contain the text that ends one item and starts the next
Embedded == {"a\";i:1;s:1:\"a", "a\";i:1;s:1:\"b", "a\";i:1;s:\"b", "b\";i:1;s:\"c"}

Components == StringsUpTo(MaxStrLen) \cup Embedded \cup {"c"}

RECURSIVE ListsUpTo(_)
ListsUpTo(n) ==
    IF n = 0 THEN {<<>>}
    ELSE ListsUpTo(n - 1) \cup {Append(l, c) : l \in ListsUpTo(n - 1), c \in Components}

\* the lists of the tests of the source
TestLists == {<<"namespace:123">>, <<"namespace:123", "DC">>, <<"vcu:38191", "JPG">>}

SerializeInputs == ListsUpTo(MaxComponents) \cup TestLists

SerializeInit ==
    /\ args \in SerializeInputs
    /\ encoded = ""
    /\ fs = [name \in CsvNames |-> Absent]
    /\ file = <<>>
    /\ ids = <<>>
    /\ pc = "serialize"
    /\ cur = 1
    /\ map = <<>>
    /\ tables = <<>>
    /\ written = 0
    /\ error = "none"
    /\ started = <<>>
    /\ finished = <<>>

\* the call serialize(&args)
Serialize ==
    /\ pc = "serialize"
    /\ encoded' = serialize(args)
    /\ pc' = "serialized"
    /\ UNCHANGED <<fs, file, ids, cur, map, tables, written, error, started, finished, args>>

SerializeNext == Serialize

SerializeSpec == SerializeInit /\ [][SerializeNext]_vars

(***************************************************************************)
(* C11: serialize is injective on ordered lists of strings over an         *)
(* alphabet that has the delimiters: the string returned for a list is     *)
(* returned for no other list of the bounded set, whatever the number, the *)
(* order or the content of its components; serialize(<<a, b>>) differs     *)
(* from serialize(<<b, a>>) and serialize(<<a>>) from serialize(<<a, a>>). *)
(***************************************************************************)
C11_Injective ==
    pc = "serialized" =>
        /\ \A other \in SerializeInputs : serialize(other) = encoded <=> other = args
        /\ args = <<"a", "b">> => encoded # serialize(<<"b", "a">>)
        /\ args = <<"a">> => encoded # serialize(<<"a", "a">>)

\* a list whose first component holds the text of an item boundary
C11_Witness ==
    /\ pc = "serialized"
    /\ args = <<"a\";i:1;s:\"b", "c">>
    /\ encoded # ""

\* the items of the format, written from the first value to the last
RECURSIVE FormatItems(_)
FormatItems(vs) ==
    IF vs = <<>> THEN ""
    ELSE FormatItems(Front(vs)) \o "i:" \o ToString(Len(vs) - 1) \o ";s:"
         \o ToString(Len(Last(vs))) \o ":\"" \o Last(vs) \o "\";"

TableNames(t) == [j \in DOMAIN Tables(t, <<>>, <<>>) |-> Tables(t, <<>>, <<>>)[j].name]

\* the chunks of migrate.sql that are tables of type t
OutputOf(t) ==
    LET IsOfType(chunk) == chunk.name \in Range(TableNames(t))
    IN  SelectSeq(file, IsOfType)

ChunkNames(chunks) == [j \in DOMAIN chunks |-> chunks[j].name]

\* the names of the preamble and of all tables of the first n types
RECURSIVE NamesUpTo(_)
NamesUpTo(n) ==
    IF n = 0 THEN <<"CREATE_TABLES_PREAMBLE">>
    ELSE NamesUpTo(n - 1) \o TableNames(Order[n])

(***************************************************************************)
(* C13 as claimed: when the rows of the current type have been resolved    *)
(* (its tables are rendered, and possibly written), the registry already   *)
(* has the slice of that type.                                             *)
(***************************************************************************)
C13_SliceBeforeResolve ==
    pc = "dump" => HasSlice(CurType)

(***************************************************************************)
(* C13 amended: the slice of a type is written into the registry after     *)
(* the cross-references of its rows have been resolved and all its tables  *)
(* written: while the rows of T are loaded, resolved or written, the       *)
(* registry has the slices of the types before T and not the slice of T,   *)
(* and a type that has its slice has all its tables in the output.         *)
(***************************************************************************)
C13_SliceAfterEmit ==
    /\ pc \in {"tables", "dump"} =>
          /\ ~HasSlice(CurType)
          /\ \A j \in 1..(cur - 1) : HasSlice(Order[j])
    /\ \A t \in IdMaps :
          HasSlice(t) =>
              /\ ChunkNames(OutputOf(t)) = TableNames(t)
              /\ t \in Range(finished)

\* the Files tables are being written, with a row resolved against the Users
\* slice, and there is no Files slice yet
C13_Witness ==
    /\ pc = "dump"
    /\ CurType = "FID"
    /\ written >= 1
    /\ Len(map) >= 1
    /\ tables[1].values[1].uid >= 2
    /\ HasSlice("UID")
    /\ ~HasSlice("FID")

\* the run ended on a failure to load, to decode or to resolve (not to write)
FailedBeforeWrite ==
    /\ pc = "failed"
    /\ started # <<>>
    /\ \/ error \in {"CSVError", "Panic"}
       \/ error = "IOError" /\ tables = <<>>

(***************************************************************************)
(* C14: when the processing of T fails because its input cannot be loaded, *)
(* a row cannot be decoded or a lookup finds no id, the output has no      *)
(* table of T, it is the preamble and the complete tables of the types     *)
(* processed before T, and the registry has no slice for T.                *)
(***************************************************************************)
C14_NoOutputOnFailure ==
    FailedBeforeWrite =>
        /\ CurType = Last(started)
        /\ OutputOf(CurType) = <<>>
        /\ ChunkNames(file) = NamesUpTo(cur - 1)
        /\ ~HasSlice(CurType)
        /\ IndexMapKeys(ids) = {Order[j] : j \in 1..(cur - 1)}

\* a revision refers to a media item that is not there: the run failed with the
\* Media tables, one row each, as the last output
C14_Witness ==
    /\ pc = "failed"
    /\ error = "Panic"
    /\ CurType = "VID"
    /\ Len(map) >= 2
    /\ Len(file) = 10
    /\ Len(file[10].values) = 1

\* the column that holds the own id of type t in its tables
OwnId(t) ==
    CASE t = "UID" -> "uid"
      [] t = "FID" -> "fid"
      [] t = "MID" -> "mid"
      [] t = "VID" -> "vid"
      [] t = "NID" -> "nid"

(***************************************************************************)
(* C15: the migrate map table of a type has one entry per distinct source  *)
(* key (not per input row), in the order of the ids; the id of an entry is *)
(* the own id of the same row in the other tables of the type, and, once   *)
(* the slice is in the registry, the id that the slice has for that key.   *)
(***************************************************************************)
C15_MigrateMapEntries ==
    /\ pc = "dump" =>
          LET t == CurType
              ks == KeySeq(t, Decoded(t))
              entries == tables[Len(tables)].values
          IN  /\ Len(entries) = Cardinality(Range(ks))
              /\ {entries[i].hash : i \in DOMAIN entries} = Range(ks)
              /\ \A i \in DOMAIN entries :
                    /\ entries[i].destid1 = SpecOffset(t) + (i - 1)
                    /\ Rank(ks, entries[i].hash) = i - 1
                    /\ \A j \in 1..(Len(tables) - 1) :
                          tables[j].values[i][OwnId(t)] = entries[i].destid1
    /\ \A t \in IdMaps :
          HasSlice(t) =>
              LET entries == Last(OutputOf(t)).values
              IN  [i \in DOMAIN entries |-> <<entries[i].hash, entries[i].destid1>>] = Slice(t)

\* three Users rows with two names: two entries, and the slice that matches them
C15_Witness ==
    /\ HasSlice("UID")
    /\ Len(Decoded("UID")) = 3
    /\ Len(Last(OutputOf("UID")).values) = 2
    /\ Last(OutputOf("UID")).values[2].destid1 = 3
    /\ Slice("UID")[2][2] = 3

(***************************************************************************)
(* C16 as claimed: every row of the Media input has in the Media Revision  *)
(* slice the id that its (pid, dsid) key has in the Media slice, also when *)
(* two rows of the Media input share pid and dsid and differ in version.   *)
(***************************************************************************)
C16_RevisionZeroKeepsId ==
    (HasSlice("MID") /\ HasSlice("VID")) =>
        \A r \in Range(MediaInput.val) :
            IndexMapIndex(Slice("VID"), RowHash("VID", r)) =
                IndexMapIndex(Slice("MID"), RowHash("MID", r))

====
